---- MODULE Spec2Model ----
(***************************************************************************)
(* Expense tracker (src/mcp.py): one SQLite table `expenses` and the tool  *)
(* handlers that read and write it.  A text value is a sequence of         *)
(* one-character strings where its characters matter (dates); categories,  *)
(* subcategories and notes are opaque strings.  Amounts are integers       *)
(* (whole currency units stored in the REAL column).                       *)
(***************************************************************************)
EXTENDS Integers, Sequences, FiniteSets, TLC

VARIABLES table, seq, now, call, ret, procs

vars == <<table, seq, now, call, ret, procs>>

(***************************************************************************)
(* Bounds of the model.                                                    *)
(***************************************************************************)
MaxSeq == 2
MaxClock == 1
MaxBulk == 101

\* list_expenses' default for `limit`.
DefaultLimit == 100

(***************************************************************************)
(* Text: characters, their byte values, and SQLite's BINARY collation.     *)
(***************************************************************************)
Digits == {"0", "1", "2", "3", "4", "5", "6", "7", "8", "9"}

DigitVal(c) ==
    CASE c = "0" -> 0 [] c = "1" -> 1 [] c = "2" -> 2 [] c = "3" -> 3
      [] c = "4" -> 4 [] c = "5" -> 5 [] c = "6" -> 6 [] c = "7" -> 7
      [] c = "8" -> 8 [] c = "9" -> 9

\* The byte of a character (ASCII), as memcmp sees it.
CharCode(c) ==
    CASE c = " " -> 32
      [] c = "-" -> 45
      [] c = "/" -> 47
      [] c \in Digits -> 48 + DigitVal(c)

Min(a, b) == IF a <= b THEN a ELSE b

\* The first index where a and b differ, or 0 when one is a prefix of the other.
FirstDiff(a, b) ==
    LET n == Min(Len(a), Len(b))
        D == {i \in 1..n : a[i] # b[i]}
    IN  IF D = {} THEN 0 ELSE CHOOSE i \in D : \A j \in D : i <= j

\* a < b for TEXT values under the BINARY collation: memcmp, then length.
TextLess(a, b) ==
    LET i == FirstDiff(a, b)
    IN  IF i = 0 THEN Len(a) < Len(b) ELSE CharCode(a[i]) < CharCode(b[i])

TextLE(a, b) == a = b \/ TextLess(a, b)

(***************************************************************************)
(* datetime.strptime(date, "%Y-%m-%d"): the format's regular expression    *)
(*   (\d\d\d\d)-(1[0-2]|0[1-9]|[1-9])-(3[01]|[12]\d|0[1-9]|[1-9]| [1-9])   *)
(* matched at the start of the text, nothing may remain after the match,   *)
(* and the three numbers must make a calendar date.                        *)
(***************************************************************************)
At(s, i) == IF i >= 1 /\ i <= Len(s) THEN s[i] ELSE "eof"

NonZero == Digits \ {"0"}

\* The lengths the month directive can match at i, in the order of its alternatives.
MonthAlts(s, i) ==
    (IF At(s, i) = "1" /\ At(s, i + 1) \in {"0", "1", "2"} THEN <<2>> ELSE <<>>)
    \o (IF At(s, i) = "0" /\ At(s, i + 1) \in NonZero THEN <<2>> ELSE <<>>)
    \o (IF At(s, i) \in NonZero THEN <<1>> ELSE <<>>)

\* The length the day directive matches at i (its first matching alternative), or 0.
DayLen(s, i) ==
    IF At(s, i) = "3" /\ At(s, i + 1) \in {"0", "1"} THEN 2
    ELSE IF At(s, i) \in {"1", "2"} /\ At(s, i + 1) \in Digits THEN 2
    ELSE IF At(s, i) = "0" /\ At(s, i + 1) \in NonZero THEN 2
    ELSE IF At(s, i) \in NonZero THEN 1
    ELSE IF At(s, i) = " " /\ At(s, i + 1) \in NonZero THEN 2
    ELSE 0

\* int() of the characters s[i..i+n-1], leading blanks skipped.
IntOf(s, i, n) ==
    LET v[k \in 0..n] ==
            IF k = 0 THEN 0
            ELSE IF s[i + k - 1] = " " THEN v[k - 1]
            ELSE 10 * v[k - 1] + DigitVal(s[i + k - 1])
    IN  v[n]

IsLeap(y) == (y % 4 = 0 /\ y % 100 # 0) \/ y % 400 = 0

DaysInMonth(y, m) ==
    IF m = 2 THEN (IF IsLeap(y) THEN 29 ELSE 28)
    ELSE IF m \in {4, 6, 9, 11} THEN 30 ELSE 31

NoDate == [ok |-> FALSE, y |-> 0, m |-> 0, d |-> 0]

\* The parse: [ok, y, m, d]; ok is FALSE where strptime raises ValueError.
strptime(s) ==
    IF ~(\A i \in 1..4 : At(s, i) \in Digits) \/ At(s, 5) # "-" THEN NoDate
    ELSE
      LET alts == MonthAlts(s, 6)
          good == {k \in 1..Len(alts) :
                      At(s, 6 + alts[k]) = "-" /\ DayLen(s, 7 + alts[k]) > 0}
      IN  IF good = {} THEN NoDate
          ELSE
            LET k  == CHOOSE x \in good : \A z \in good : x <= z
                ml == alts[k]
                dl == DayLen(s, 7 + ml)
                y  == IntOf(s, 1, 4)
                m  == IntOf(s, 6, ml)
                d  == IntOf(s, 7 + ml, dl)
            IN  IF 6 + ml + dl # Len(s) THEN NoDate      \* unconverted data remains
                ELSE IF y < 1 \/ d > DaysInMonth(y, m) THEN NoDate
                ELSE [ok |-> TRUE, y |-> y, m |-> m, d |-> d]

ValidDate(s) == strptime(s).ok

(***************************************************************************)
(* The expenses table.                                                     *)
(***************************************************************************)
Ids(t) == {r.id : r \in t}

RowOf(t, id) == CHOOSE r \in t : r.id = id

\* The columns a SELECT of get_expense and list_expenses returns.
Cols(r) ==
    [id |-> r.id, date |-> r.date, amount |-> r.amount, category |-> r.category,
     subcategory |-> r.subcategory, note |-> r.note]

\* An absent optional argument is <<>>; a supplied one is <<value>>.
None == <<>>
Some(v) == <<v>>
IsNone(o) == o = <<>>
Val(o) == o[1]

Idle == [pc |-> "idle", id |-> 0, pre |-> FALSE, ret |-> [status |-> "none"]]
Callers == {"a", "b"}

\* init_db: the table is created empty; AUTOINCREMENT's sequence starts at 0.
Init ==
    /\ table = {}
    /\ seq = 0
    /\ now = 0
    /\ call = [op |-> "init_db"]
    /\ ret = [status |-> "success"]
    /\ procs = [c \in Callers |-> Idle]


(***************************************************************************)
(* Results of the handlers.  A message built by an f-string is the tuple   *)
(* of its pieces.                                                          *)
(***************************************************************************)
Error(msg) == [status |-> "error", message |-> msg]

BadDate == Error("Invalid date format. Use YYYY-MM-DD")
BadAmount == Error("Amount must be positive")
NoFields == Error("No fields to update")
NotFound(id) == Error(<<"Expense with ID ", id, " not found">>)

\* A Python str or None as a condition: None and "" are false.
TruthyText(o) == ~IsNone(o) /\ Val(o) # <<>>
TruthyName(o) == ~IsNone(o) /\ Val(o) # ""

\* The rowid an insert is given.  AUTOINCREMENT never reuses one: it is one more
\* than the largest the table has ever held (sqlite_sequence).
NextIdReuse(t, s) ==
    IF t = {} THEN 1 ELSE 1 + (CHOOSE i \in Ids(t) : \A j \in Ids(t) : j <= i)
NextId(t, s) == s + 1

\* The validation of add_expense: the error it returns, or <<>> when it passes.
AddCheckNoAmount(date, amount) ==
    IF ~ValidDate(date) THEN <<BadDate>> ELSE <<>>
AddCheck(date, amount) ==
    IF ~ValidDate(date) THEN <<BadDate>>
    ELSE IF amount <= 0 THEN <<BadAmount>>
    ELSE <<>>

add_expense(date, amount, category, subcategory, note, t) ==
    /\ call' = [op |-> "add_expense", date |-> date, amount |-> amount,
                category |-> category, subcategory |-> subcategory, note |-> note]
    /\ UNCHANGED procs
    /\ IF AddCheck(date, amount) # <<>>
       THEN /\ ret' = AddCheck(date, amount)[1]
            /\ UNCHANGED <<table, seq, now>>
       ELSE LET id == NextId(table, seq)
            IN  /\ t >= now
                /\ table' = table \cup
                      {[id |-> id, date |-> date, amount |-> amount,
                        category |-> category, subcategory |-> subcategory,
                        note |-> note, created_at |-> t, updated_at |-> t]}
                /\ seq' = id
                /\ now' = t
                /\ ret' = [status |-> "success", id |-> id,
                           message |-> <<"Expense added successfully (ID: ", id, ")">>]

\* What get_expense returns on table t.
GetResult(t, id) ==
    IF id \in Ids(t)
    THEN [status |-> "success", expense |-> Cols(RowOf(t, id))]
    ELSE NotFound(id)

get_expense(id) ==
    /\ call' = [op |-> "get_expense", expense_id |-> id]
    /\ ret' = GetResult(table, id)
    /\ UNCHANGED <<table, seq, now, procs>>

(***************************************************************************)
(* list_expenses: the WHERE clause holds a condition for each argument     *)
(* that is true as a Python condition; ORDER BY date DESC, id DESC; LIMIT. *)
(***************************************************************************)
ListWhere(r, start, end, category) ==
    /\ TruthyText(start) => TextLE(Val(start), r.date)
    /\ TruthyText(end) => TextLE(r.date, Val(end))
    /\ TruthyName(category) => r.category = Val(category)

\* r comes before q under ORDER BY date DESC, id DESC.
Before(r, q) ==
    \/ TextLess(q.date, r.date)
    \/ r.date = q.date /\ r.id > q.id

\* rows (in that order already) with r put at its place.
RECURSIVE InsertRow(_, _)
InsertRow(r, rows) ==
    IF rows = <<>> THEN <<r>>
    ELSE IF Before(r, Head(rows)) THEN <<r>> \o rows
    ELSE <<Head(rows)>> \o InsertRow(r, Tail(rows))

\* The rows of S in that order.
RECURSIVE Ordered(_)
Ordered(S) ==
    IF S = {} THEN <<>>
    ELSE LET r == CHOOSE x \in S : TRUE IN InsertRow(r, Ordered(S \ {r}))

\* LIMIT n: the first n rows; a negative n is no limit at all.
LimitNoNegative(rows, n) == SubSeq(rows, 1, Min(IF n < 0 THEN 0 ELSE n, Len(rows)))
Limit(rows, n) ==
    IF n < 0 THEN rows ELSE SubSeq(rows, 1, Min(n, Len(rows)))

ListResult(t, start, end, category, limit) ==
    LET rows == Ordered({r \in t : ListWhere(r, start, end, category)})
        kept == Limit(rows, limit)
    IN  [i \in 1..Len(kept) |-> Cols(kept[i])]

list_expenses(start, end, category, limit) ==
    /\ call' = [op |-> "list_expenses", start_date |-> start, end_date |-> end,
                category |-> category, limit |-> limit]
    /\ ret' = ListResult(table, start, end, category, limit)
    /\ UNCHANGED <<table, seq, now, procs>>


(***************************************************************************)
(* update_expense: the existence check, then one SET clause per argument   *)
(* that passes its test, then updated_at.                                  *)
(***************************************************************************)
\* The arguments that put a clause in `updates`.
SetsDate(date) == TruthyText(date)
SetsField(o) == ~IsNone(o)

\* The error update_expense returns before it writes, or <<>> when it writes.
UpdateCheckNoEmpty(t, id, date, amount, category, subcategory, note) ==
    IF id \notin Ids(t) THEN <<NotFound(id)>>
    ELSE IF SetsDate(date) /\ ~ValidDate(Val(date)) THEN <<BadDate>>
    ELSE IF SetsField(amount) /\ Val(amount) <= 0 THEN <<BadAmount>>
    ELSE <<>>
UpdateCheck(t, id, date, amount, category, subcategory, note) ==
    IF id \notin Ids(t) THEN <<NotFound(id)>>
    ELSE IF SetsDate(date) /\ ~ValidDate(Val(date)) THEN <<BadDate>>
    ELSE IF SetsField(amount) /\ Val(amount) <= 0 THEN <<BadAmount>>
    ELSE IF ~(\/ SetsDate(date) \/ SetsField(amount) \/ SetsField(category)
              \/ SetsField(subcategory) \/ SetsField(note)) THEN <<NoFields>>
    ELSE <<>>

\* The row after UPDATE expenses SET <updates>, updated_at = CURRENT_TIMESTAMP.
UpdatedRowResetsSub(r, date, amount, category, subcategory, note, t) ==
    [r EXCEPT !.date = IF SetsDate(date) THEN Val(date) ELSE @,
              !.amount = IF SetsField(amount) THEN Val(amount) ELSE @,
              !.category = IF SetsField(category) THEN Val(category) ELSE @,
              !.subcategory = IF SetsField(subcategory) THEN Val(subcategory) ELSE "",
              !.note = IF SetsField(note) THEN Val(note) ELSE @,
              !.updated_at = t]
UpdatedRow(r, date, amount, category, subcategory, note, t) ==
    [r EXCEPT !.date = IF SetsDate(date) THEN Val(date) ELSE @,
              !.amount = IF SetsField(amount) THEN Val(amount) ELSE @,
              !.category = IF SetsField(category) THEN Val(category) ELSE @,
              !.subcategory = IF SetsField(subcategory) THEN Val(subcategory) ELSE @,
              !.note = IF SetsField(note) THEN Val(note) ELSE @,
              !.updated_at = t]

\* What the handler returns after an UPDATE that changed n rows.
UpdateStatus(id, n) ==
    IF n > 0
    THEN [status |-> "success", message |-> <<"Expense ", id, " updated successfully">>]
    ELSE Error(<<"No expense found with ID ", id>>)

update_expense(id, date, amount, category, subcategory, note, t) ==
    /\ call' = [op |-> "update_expense", expense_id |-> id, date |-> date,
                amount |-> amount, category |-> category,
                subcategory |-> subcategory, note |-> note]
    /\ UNCHANGED <<seq, procs>>
    /\ LET err == UpdateCheck(table, id, date, amount, category, subcategory, note)
       IN  IF err # <<>>
           THEN /\ ret' = err[1]
                /\ UNCHANGED <<table, now>>
           ELSE LET r == RowOf(table, id)
                IN  /\ t >= now
                    /\ table' = (table \ {r}) \cup
                          {UpdatedRow(r, date, amount, category, subcategory, note, t)}
                    /\ now' = t
                    /\ ret' = UpdateStatus(id, Cardinality({x \in table : x.id = id}))

(***************************************************************************)
(* delete_expense: the existence check, then the DELETE and its rowcount.  *)
(***************************************************************************)
\* What the handler returns after a DELETE that removed n rows.
DeleteStatusAlways(id, n) ==
    [status |-> "success", message |-> <<"Expense ", id, " deleted successfully">>]
DeleteStatus(id, n) ==
    IF n > 0
    THEN [status |-> "success", message |-> <<"Expense ", id, " deleted successfully">>]
    ELSE Error(<<"Failed to delete expense ", id>>)

\* DELETE FROM expenses WHERE id = ?
DeleteWhereId(t, id) == {r \in t : r.id # id}

\* One caller at a time: the whole handler.
delete_expense(id) ==
    /\ call' = [op |-> "delete_expense", expense_id |-> id]
    /\ UNCHANGED <<seq, now, procs>>
    /\ IF GetResult(table, id).status = "error"
       THEN /\ ret' = GetResult(table, id)
            /\ UNCHANGED table
       ELSE /\ table' = DeleteWhereId(table, id)
            /\ ret' = DeleteStatus(id, Cardinality(table) - Cardinality(table'))

(***************************************************************************)
(* delete_expenses_by_date_range                                           *)
(***************************************************************************)
\* date BETWEEN start AND end, on TEXT.
Between(date, start, end) == TextLE(start, date) /\ TextLE(date, end)

delete_expenses_by_date_range(start, end) ==
    /\ call' = [op |-> "delete_expenses_by_date_range",
                start_date |-> start, end_date |-> end]
    /\ UNCHANGED <<seq, now, procs>>
    /\ IF ~ValidDate(start) \/ ~ValidDate(end)
       THEN /\ ret' = BadDate
            /\ UNCHANGED table
       ELSE /\ table' = {r \in table : ~Between(r.date, start, end)}
            /\ ret' = [status |-> "success",
                       message |-> <<"Deleted ", Cardinality(table) - Cardinality(table'),
                                     " expenses from ", start, " to ", end>>]


(***************************************************************************)
(* summarize: the COUNT, the SUM and the AVG of amount per group of rows   *)
(* with date BETWEEN the bounds (and of the category, when one is given),  *)
(* ORDER BY total_amount DESC.                                             *)
(***************************************************************************)
RECURSIVE SumAmount(_)
SumAmount(S) ==
    IF S = {} THEN 0
    ELSE LET r == CHOOSE x \in S : TRUE IN r.amount + SumAmount(S \ {r})

RECURSIVE GCD(_, _)
GCD(a, b) == IF b = 0 THEN a ELSE GCD(b, a % b)

\* The real number n / d (d > 0), as a fraction in lowest terms.
Quot(n, d) == [num |-> n \div GCD(n, d), den |-> d \div GCD(n, d)]

SummarizeWhereHalfOpen(r, start, end, category) ==
    /\ TextLE(start, r.date) /\ TextLess(r.date, end)
    /\ TruthyName(category) => r.category = Val(category)
SummarizeWhere(r, start, end, category) ==
    /\ Between(r.date, start, end)
    /\ TruthyName(category) => r.category = Val(category)

\* GROUP BY category, or GROUP BY category, subcategory.
GroupKey(r, bySub) == IF bySub THEN <<r.category, r.subcategory>> ELSE <<r.category>>

\* The row of the result for the group G (its rows) with key k.
GroupRow(G, k, bySub) ==
    IF bySub
    THEN [category |-> k[1], subcategory |-> k[2], count |-> Cardinality(G),
          total_amount |-> SumAmount(G),
          average_amount |-> Quot(SumAmount(G), Cardinality(G))]
    ELSE [category |-> k[1], count |-> Cardinality(G),
          total_amount |-> SumAmount(G),
          average_amount |-> Quot(SumAmount(G), Cardinality(G))]

SummarizeGroups(t, start, end, category, bySub) ==
    LET rows == {r \in t : SummarizeWhere(r, start, end, category)}
        keys == {GroupKey(r, bySub) : r \in rows}
    IN  {GroupRow({r \in rows : GroupKey(r, bySub) = k}, k, bySub) : k \in keys}

\* The orders ORDER BY total_amount DESC allows: groups of equal total come in
\* any order.
ByTotalDesc(G) ==
    {f \in [1..Cardinality(G) -> G] :
        /\ \A i, j \in 1..Cardinality(G) : i # j => f[i] # f[j]
        /\ \A i, j \in 1..Cardinality(G) :
              i < j => f[i].total_amount >= f[j].total_amount}

summarize(start, end, category, bySub) ==
    /\ call' = [op |-> "summarize", start_date |-> start, end_date |-> end,
                category |-> category, group_by_subcategory |-> bySub]
    /\ UNCHANGED <<table, seq, now, procs>>
    /\ IF ~ValidDate(start) \/ ~ValidDate(end)
       THEN ret' = <<BadDate>>
       ELSE ret' \in ByTotalDesc(SummarizeGroups(table, start, end, category, bySub))

(***************************************************************************)
(* Two callers in delete_expense at once: each runs the existence check    *)
(* (get_expense, its own connection) and then the DELETE (another          *)
(* connection) as two steps; SQLite runs each statement atomically.        *)
(***************************************************************************)
delete_call(c, id) ==
    /\ procs[c].pc \in {"idle", "done"}
    /\ procs' = [procs EXCEPT ![c] =
                    [pc |-> "check", id |-> id, pre |-> id \in Ids(table),
                     ret |-> [status |-> "none"]]]
    /\ UNCHANGED <<table, seq, now, call, ret>>

delete_check(c) ==
    /\ procs[c].pc = "check"
    /\ procs' = [procs EXCEPT ![c] =
                    IF GetResult(table, procs[c].id).status = "error"
                    THEN [@ EXCEPT !.pc = "done", !.ret = GetResult(table, procs[c].id)]
                    ELSE [@ EXCEPT !.pc = "delete"]]
    /\ UNCHANGED <<table, seq, now, call, ret>>

delete_commit(c) ==
    /\ procs[c].pc = "delete"
    /\ table' = DeleteWhereId(table, procs[c].id)
    /\ procs' = [procs EXCEPT ![c] =
                    [@ EXCEPT !.pc = "done",
                              !.ret = DeleteStatus(procs[c].id,
                                   Cardinality(table) - Cardinality(table'))]]
    /\ UNCHANGED <<seq, now, call, ret>>

(***************************************************************************)
(* Inputs.                                                                 *)
(***************************************************************************)
D_0115 == <<"2", "0", "2", "4", "-", "0", "1", "-", "1", "5">>
D_0203 == <<"2", "0", "2", "4", "-", "0", "2", "-", "0", "3">>
\* January 20th without the zero: strptime takes it.
D_120 == <<"2", "0", "2", "4", "-", "1", "-", "2", "0">>
D_slash == <<"1", "5", "/", "0", "1", "/", "2", "0", "2", "4">>
D_0230 == <<"2", "0", "2", "4", "-", "0", "2", "-", "3", "0">>
D_empty == <<>>

IdArgs == 1..MaxSeq
Times == now..MaxClock

\* An add that would insert is taken only below the model's cap on rowids.
AddRoom(date, amount, cap) == AddCheck(date, amount) = <<>> => seq < cap

\* One caller at a time, every handler whole.
Next ==
    \/ \E d \in {D_0115, D_slash, D_0230, D_empty}, a \in {-5, 0, 10}, t \in Times :
          AddRoom(d, a, MaxSeq) /\ add_expense(d, a, "Food", "Groceries", "", t)
    \/ \E id \in IdArgs : get_expense(id)
    \/ \E id \in IdArgs, d \in {None, Some(D_empty), Some(D_slash)},
          a \in {None, Some(0), Some(20)}, t \in Times :
          update_expense(id, d, a, None, None, None, t)
    \/ \E id \in IdArgs : delete_expense(id)
    \/ \E s \in {D_0115, D_slash}, e \in {D_0115, D_0230} :
          delete_expenses_by_date_range(s, e)

Spec == Init /\ [][Next]_vars

\* The queries over rows of several dates and categories.
NextQuery ==
    \/ \E d \in {D_0115, D_120, D_0203, D_0230}, a \in {0, 10, 20},
          c \in {"Food", "Travel"} :
          AddRoom(d, a, MaxSeq) /\ add_expense(d, a, c, "", "", now)
    \/ \E id \in IdArgs : get_expense(id)
    \/ \E id \in IdArgs, d \in {None, Some(D_empty), Some(D_0203)},
          c \in {None, Some("Travel")} :
          update_expense(id, d, None, c, None, None, now)
    \/ \E s \in {None, Some(D_0115)}, e \in {Some(D_empty), Some(D_0203)},
          c \in {Some(""), Some("Food")}, n \in {-1, 0, 1, DefaultLimit} :
          list_expenses(s, e, c, n)
    \/ \E s \in {D_0115, D_slash}, e \in {D_0115, D_0203} :
          delete_expenses_by_date_range(s, e)
    \/ \E s \in {D_0115, D_slash}, e \in {D_0203}, c \in {None, Some("Food")},
          b \in BOOLEAN :
          summarize(s, e, c, b)

SpecQuery == Init /\ [][NextQuery]_vars

\* A long import: row i has the date, amount and category the script gives it.
BulkDate(i) == IF i % 3 = 0 THEN D_0203 ELSE D_0115
BulkAmount(i) == IF i % 2 = 0 THEN 10 ELSE 20
BulkCategory(i) == IF i % 2 = 0 THEN "Travel" ELSE "Food"
BulkSub(i) == IF i % 4 < 2 THEN "" ELSE "Taxi"

NextBulk ==
    \/ AddRoom(BulkDate(seq + 1), BulkAmount(seq + 1), MaxBulk)
       /\ add_expense(BulkDate(seq + 1), BulkAmount(seq + 1), BulkCategory(seq + 1),
                      BulkSub(seq + 1), "", now)
    \/ \E n \in {-1, DefaultLimit} :
          list_expenses(Some(D_0115), Some(D_0203), None, n)
    \/ \E c \in {None, Some("Food")} :
          summarize(D_0115, D_0203, c, FALSE)

SpecBulk == Init /\ [][NextBulk]_vars

\* Two callers deleting while rows are added.
NextRace ==
    \/ \E a \in {10, 20} :
          AddRoom(D_0115, a, MaxSeq) /\ add_expense(D_0115, a, "Food", "", "", now)
    \/ \E c \in Callers, id \in IdArgs : delete_call(c, id)
    \/ \E c \in Callers : delete_check(c)
    \/ \E c \in Callers : delete_commit(c)

SpecRace == Init /\ [][NextRace]_vars


(***************************************************************************)
(* What the claims speak of.                                               *)
(***************************************************************************)
\* The YYYY-MM-DD grammar: four digits, two digits, two digits.
IsoDate(s) ==
    /\ Len(s) = 10
    /\ \A i \in {1, 2, 3, 4, 6, 7, 9, 10} : s[i] \in Digits
    /\ s[5] = "-" /\ s[8] = "-"

\* The day a stored date names, as one number.
DayNumber(s) == strptime(s).y * 10000 + strptime(s).m * 100 + strptime(s).d

RECURSIVE SumOver(_, _)
\* The sum of rows[i].amount over the indices I.
SumOver(rows, I) ==
    IF I = {} THEN 0
    ELSE LET i == CHOOSE x \in I : TRUE IN rows[i].amount + SumOver(rows, I \ {i})

InGroup(row, g) ==
    /\ row.category = g.category
    /\ "subcategory" \in DOMAIN g => row.subcategory = g.subcategory

\* The group g of a summarize result agrees with the rows list returns under `limit`.
GroupAgrees(g, limit) ==
    LET L == ListResult(table, Some(call.start_date), Some(call.end_date),
                        call.category, limit)
        I == {i \in 1..Len(L) : InGroup(L[i], g)}
    IN  /\ g.total_amount = SumOver(L, I)
        /\ g.count = Cardinality(I)
        /\ g.count > 0
        /\ g.average_amount.num * g.count = g.total_amount * g.average_amount.den

SummarizeAnswered ==
    /\ call.op = "summarize"
    /\ ValidDate(call.start_date) /\ ValidDate(call.end_date)

(***************************************************************************)
(* C1: every row of the table has a non-empty date of the YYYY-MM-DD       *)
(* grammar and an amount > 0.                                              *)
(***************************************************************************)
C1_RowsWellFormed ==
    \A r \in table : r.date # <<>> /\ IsoDate(r.date) /\ r.amount > 0

NoFieldSupplied(c) ==
    /\ IsNone(c.date) /\ IsNone(c.amount) /\ IsNone(c.category)
    /\ IsNone(c.subcategory) /\ IsNone(c.note)

C3_EmptyUpdateFails ==
    [][(call'.op = "update_expense" /\ NoFieldSupplied(call'))
          => (ret'.status = "error" /\ table' = table)]_vars

C3_Witness ==
    /\ call.op = "update_expense" /\ NoFieldSupplied(call)
    /\ call.expense_id \in Ids(table)
    /\ ret = NoFields
    /\ now > RowOf(table, call.expense_id).updated_at

(***************************************************************************)
(* C4: a successful update_expense(id, amount=X) replaces the amount and   *)
(* updated_at of row id and nothing else: the row's other columns and      *)
(* every other row stay as they were.                                      *)
(***************************************************************************)
OnlyAmountSupplied(c) ==
    /\ ~IsNone(c.amount) /\ IsNone(c.date) /\ IsNone(c.category)
    /\ IsNone(c.subcategory) /\ IsNone(c.note)

C4_AmountUpdateFrame ==
    [][(call'.op = "update_expense" /\ OnlyAmountSupplied(call')
        /\ ret'.status = "success")
          => /\ call'.expense_id \in Ids(table) /\ call'.expense_id \in Ids(table')
             /\ LET old == RowOf(table, call'.expense_id)
                    new == RowOf(table', call'.expense_id)
                IN  /\ table' \ {new} = table \ {old}
                    /\ new.amount = Val(call'.amount)
                    /\ new.date = old.date /\ new.category = old.category
                    /\ new.subcategory = old.subcategory /\ new.note = old.note
                    /\ new.created_at = old.created_at]_vars

C4_Witness ==
    /\ call.op = "update_expense" /\ OnlyAmountSupplied(call) /\ ret.status = "success"
    /\ Cardinality(table) = 2
    /\ LET r == RowOf(table, call.expense_id)
       IN  r.amount = 20 /\ r.updated_at > r.created_at /\ r.subcategory = "Groceries"

(***************************************************************************)
(* C5: delete_expense on an id without a row returns not-found and leaves  *)
(* the table as it was; on an id with a row it returns success and removes *)
(* that row only; an id once gone never has a row again, whatever is added *)
(* later, and get_expense on it returns not-found.                         *)
(***************************************************************************)
C5_DeleteIsFinal ==
    [][/\ call'.op = "delete_expense" =>
            IF call'.expense_id \in Ids(table)
            THEN /\ ret'.status = "success"
                 /\ table' = table \ {RowOf(table, call'.expense_id)}
            ELSE /\ ret'.status = "error"
                 /\ ret'.message = <<"Expense with ID ", call'.expense_id, " not found">>
                 /\ table' = table
       /\ \A i \in 1..seq : i \notin Ids(table) => i \notin Ids(table')
       /\ (call'.op = "get_expense" /\ call'.expense_id \notin Ids(table'))
            => /\ ret'.status = "error"
               /\ ret'.message = <<"Expense with ID ", call'.expense_id, " not found">>]_vars

C5_Witness ==
    /\ call.op = "get_expense" /\ call.expense_id = 1 /\ ret.status = "error"
    /\ seq = 2 /\ Ids(table) = {2}

(***************************************************************************)
(* C6: whatever the table, the filters and the limit (0 and negative ones  *)
(* included), what list_expenses returns is sorted by date descending,     *)
(* then id descending, and holds no more than `limit` rows (no row at all  *)
(* when the limit is negative).                                            *)
(***************************************************************************)
C6_ListSortedAndCapped ==
    call.op = "list_expenses" =>
        /\ \A i, j \in 1..Len(ret) :
              i < j => \/ DayNumber(ret[i].date) > DayNumber(ret[j].date)
                       \/ /\ DayNumber(ret[i].date) = DayNumber(ret[j].date)
                          /\ ret[i].id > ret[j].id
        /\ Len(ret) <= (IF call.limit < 0 THEN 0 ELSE call.limit)

(***************************************************************************)
(* C7: each group summarize returns has total_amount the sum of amount     *)
(* over the rows of that group that list_expenses returns for the same     *)
(* start_date, end_date and category, count the number of those rows, and  *)
(* average_amount = total_amount / count.                                  *)
(* As stated, list_expenses runs with its default limit; as amended, with  *)
(* a limit no smaller than the number of rows in the table.                *)
(***************************************************************************)
C7_SummarizeMatchesDefaultList ==
    SummarizeAnswered => \A k \in 1..Len(ret) : GroupAgrees(ret[k], DefaultLimit)

C7_SummarizeMatchesWholeList ==
    SummarizeAnswered => \A k \in 1..Len(ret) : GroupAgrees(ret[k], Cardinality(table))

C7_Witness ==
    /\ SummarizeAnswered
    /\ Cardinality(table) > DefaultLimit
    /\ Len(ret) = 2 /\ ret[1].count > 1 /\ ret[2].count > 1

(***************************************************************************)
(* C8: delete_expenses_by_date_range with two valid dates removes the rows *)
(* whose date lies between them, bounds included, and no other row, and    *)
(* returns status success with deleted_count = the number of rows removed; *)
(* with an invalid bound it returns an error and removes nothing.          *)
(***************************************************************************)
C8_RangeDelete ==
    [][call'.op = "delete_expenses_by_date_range" =>
          IF ValidDate(call'.start_date) /\ ValidDate(call'.end_date)
          THEN /\ table' = {r \in table :
                      ~(/\ DayNumber(call'.start_date) <= DayNumber(r.date)
                        /\ DayNumber(r.date) <= DayNumber(call'.end_date))}
               /\ ret'.status = "success"
               /\ "deleted_count" \in DOMAIN ret'
               /\ ret'.deleted_count = Cardinality(table) - Cardinality(table')
          ELSE ret'.status = "error" /\ table' = table]_vars

(***************************************************************************)
(* C9: two callers in delete_expense on the same id, whose row is there    *)
(* when each call begins: one returns success and the other status error,  *)
(* and each DELETE removes the row of that id and no other.                *)
(***************************************************************************)
BothDone(p) ==
    /\ \A c \in Callers : p[c].pc = "done" /\ p[c].pre
    /\ \A c, d \in Callers : p[c].id = p[d].id

C9_OneDeleteWins ==
    [][/\ BothDone(procs') =>
            \E c \in Callers :
                /\ procs'[c].ret.status = "success"
                /\ \A d \in Callers \ {c} : procs'[d].ret.status = "error"
       /\ \A c \in Callers :
            (procs[c].pc = "delete" /\ procs'[c].pc = "done")
                => table' = table \ {r \in table : r.id = procs[c].id}]_vars

C9_Witness ==
    /\ BothDone(procs)
    /\ procs["a"].ret.status = "success"
    /\ procs["b"].ret = Error(<<"Failed to delete expense ", procs["b"].id>>)
    /\ table # {}

(***************************************************************************)
(* C10: update_expense on an id with a row, given a date that fails the    *)
(* grammar (the empty string included) or an amount <= 0, returns an error *)
(* and replaces no field of the row, whatever else it is given.            *)
(***************************************************************************)
C10_UpdateValidatesEachField ==
    [][(/\ call'.op = "update_expense"
        /\ call'.expense_id \in Ids(table)
        /\ \/ ~IsNone(call'.date) /\ ~ValidDate(Val(call'.date))
           \/ ~IsNone(call'.amount) /\ Val(call'.amount) <= 0)
          => (ret'.status = "error" /\ table' = table)]_vars

====
